---- MODULE Spec2Model ----
(***************************************************************************)
(* Model of the repost detector (src/src/main.rs): the message handler,    *)
(* the link and image caches, the allow registry and the source-type       *)
(* filter, with one task per incoming message and the shared data behind   *)
(* one exclusive lock.                                                     *)
(***************************************************************************)
EXTENDS Integers, Sequences, FiniteSets, TLC

VARIABLES
    env,             \* the process environment read by read_config
    config,          \* Config {cache_limit, ignored_types}
    link_cache,      \* LinkCache: HashSet<LinkMetadata>
    hash_cache,      \* HashCache: HashSet<ImageMetadata>
    allowed_links,   \* AllowedLinks: HashSet<String>
    allowed_hashes,  \* AllowedHashes: HashSet<ImageHash>
    lock,            \* owner of context.data's write lock, or Free
    handlers,        \* one record per message task: position and locals
    now,             \* Utc::now(), in hours
    nextId,          \* id of the next message delivered
    notices,         \* replies sent with reply_mention, in order
    last             \* the step just taken, as an event

vars == <<env, config, link_cache, hash_cache, allowed_links, allowed_hashes,
          lock, handlers, now, nextId, notices, last>>

----------------------------------------------------------------------------
(* Bounds of the model *)

NumHandlers == 2
MaxMsgs == 2
MaxClock == 30
HashBits == 2

(* Input universe *)

Handlers == 1..NumHandlers
Free == 0
\* `client.data.write()` in main: the lock is main's during startup
Main == NumHandlers + 1
Users == {"A", "B"}
NoUrl == "none"
Urls == {"u1", "u2"}
NoHash == -1
Fingerprints == 0..(2^HashBits - 1)
TickHours == {12, 18}
CacheLimits == {1}

\* an environment variable: unset, or set to a string
Unset == [set |-> FALSE, value |-> <<>>]
Var(value) == [set |-> TRUE, value |-> value]

\* values of REPOST_CACHE_LIMIT, as strings of characters: "", "a", "-1",
\* "0" and "1"
CacheLimitValues ==
    {Unset} \cup {Var(v) : v \in {<<>>, <<"a">>, <<"-", "1">>, <<"0">>, <<"1">>}}

\* values of REPOST_IGNORED_TYPES, each string written as the list of its
\* comma-separated fields: "", "attachment", "links" and "attachment,links"
IgnoredTypeValues ==
    {Unset} \cup {Var(v) : v \in {<<"">>, <<"attachment">>, <<"links">>,
                                  <<"attachment", "links">>}}

Environment ==
    [REPOST_CACHE_LIMIT : CacheLimitValues,
     REPOST_IGNORED_TYPES : IgnoredTypeValues]

\* the image behind each embed url
RemoteImage(url) == IF url = "u1" THEN 0 ELSE 1

\* contents of the messages delivered: embeds (urls) and attachments (the
\* fingerprint of each attached image)
Contents ==
    {<<e, <<>>>> : e \in {<<"u1">>, <<"u1", "u2">>, <<NoUrl>>}}
    \cup {<<<<>>, a>> : a \in {<<0>>, <<3>>, <<0, 1>>}}
    \cup {<<<<"u1">>, <<3>>>>}
AllowContents == {<<<<"u1">>, <<>>>>, <<<<>>, <<0>>>>, <<<<"u1">>, <<3>>>>}

Shape(author, bot, allow, content) ==
    [author |-> author, bot |-> bot, allow |-> allow,
     embeds |-> content[1], attachments |-> content[2]]

MsgShapes ==
    {Shape(u, FALSE, FALSE, c) : u \in Users, c \in Contents}
    \cup {Shape("A", FALSE, TRUE, c) : c \in AllowContents}
    \cup {Shape("B", TRUE, FALSE, <<<<"u1">>, <<0>>>>)}

\* the messages delivered while the clock runs
TimedShapes ==
    {Shape(u, FALSE, FALSE, c) : u \in Users, c \in {<<<<"u1">>, <<>>>>, <<<<>>, <<0>>>>}}
    \cup {Shape("A", FALSE, TRUE, <<<<>>, <<1>>>>), Shape("B", TRUE, FALSE, <<<<"u1">>, <<>>>>)}

NoMsg == [id |-> 0, author |-> "A", bot |-> FALSE, allow |-> FALSE,
          embeds |-> <<>>, attachments |-> <<>>, timestamp |-> 0]

\* a task's position and locals; peers are the messages whose tasks were
\* alive at the same time as this one
IdleHandler == [pc |-> "idle", msg |-> NoMsg, urls |-> {},
                embedded |-> <<>>, atts |-> <<>>, hashes |-> <<>>,
                peers |-> {}]

NoRecord == [url |-> NoUrl, hash |-> NoHash, timestamp |-> 0,
             user |-> "A", msg_link |-> 0]

----------------------------------------------------------------------------
(* Pure helpers *)

\* the result of a failed parse, and the Config of a read_config that panicked
ParseErr == -1
Panicked == [cache_limit |-> ParseErr, ignored_types |-> {}]

Digits == <<"0", "1", "2", "3", "4", "5", "6", "7", "8", "9">>

\* char::to_digit(10), ParseErr for a character that is no digit
DigitValue(c) ==
    IF \E i \in DOMAIN Digits : Digits[i] = c
    THEN (CHOOSE i \in DOMAIN Digits : Digits[i] = c) - 1
    ELSE ParseErr

RECURSIVE ParseDigits(_, _)
ParseDigits(s, acc) ==
    IF s = <<>> THEN acc
    ELSE IF DigitValue(Head(s)) = ParseErr THEN ParseErr
    ELSE ParseDigits(Tail(s), 10 * acc + DigitValue(Head(s)))

\* str::parse::<u64>: an optional "+" and at least one digit; the empty
\* string, a lone sign, "-" and any other character are errors (the values
\* drawn are too short to overflow 64 bits)
parse_u64(s) ==
    IF s = <<>> THEN ParseErr
    ELSE IF Head(s) = "+"
         THEN (IF Tail(s) = <<>> THEN ParseErr ELSE ParseDigits(Tail(s), 0))
         ELSE ParseDigits(s, 0)

SeqToSet(s) == {s[i] : i \in DOMAIN s}

\* read_config: `expect` panics on an unset variable and `unwrap` on a
\* failed parse
read_config(e) ==
    IF ~e.REPOST_CACHE_LIMIT.set THEN Panicked
    ELSE IF parse_u64(e.REPOST_CACHE_LIMIT.value) = ParseErr THEN Panicked
    ELSE IF ~e.REPOST_IGNORED_TYPES.set THEN Panicked
    ELSE [cache_limit |-> parse_u64(e.REPOST_CACHE_LIMIT.value),
          ignored_types |-> SeqToSet(e.REPOST_IGNORED_TYPES.value)]

Bit(a, i) == (a \div (2^i)) % 2

\* ImageHash::dist: Hamming distance of two fingerprints
dist(a, b) == Cardinality({i \in 0..(HashBits - 1) : Bit(a, i) # Bit(b, i)})

\* the threshold of the comparison `hash.dist(&i.hash) < 2`
DistThreshold == 2

\* mutant of num_days: rounded to the nearest day
num_days_rounded(hours) == (hours + 12) \div 24

\* Duration::num_days: whole days, truncated toward zero
num_days(hours) == IF hours >= 0 THEN hours \div 24 ELSE -((-hours) \div 24)

\* msg.embeds.iter().map(|e| e.url).filter(is_some).map(unwrap)
EmbedUrls(msg) == SelectSeq(msg.embeds, LAMBDA u : u # NoUrl)

\* mutant of is_ignored_type: the attachment clause is lost
is_ignored_links_only(msg, cfg) ==
    msg.embeds # <<>> /\ "links" \in cfg.ignored_types

\* is_ignored_type
is_ignored_type(msg, cfg) ==
    LET ignore_attached == "attachment" \in cfg.ignored_types
        ignore_links == "links" \in cfg.ignored_types
    IN  (ignore_attached /\ msg.attachments # <<>>)
        \/ (msg.embeds # <<>> /\ ignore_links)

\* mutant of HashSetInsert: inserting a member removes it
HashSetToggle(s, x) == IF x \in s THEN s \ {x} ELSE s \cup {x}

\* HashSet::insert
HashSetInsert(s, x) == s \cup {x}

\* LinkMetadata / ImageMetadata built from the message being handled
LinkMetadata(url, msg) ==
    [url |-> url, hash |-> NoHash, timestamp |-> msg.timestamp,
     user |-> msg.author, msg_link |-> msg.id]

ImageMetadata(hash, msg) ==
    [url |-> NoUrl, hash |-> hash, timestamp |-> msg.timestamp,
     user |-> msg.author, msg_link |-> msg.id]

\* mutant of Notice: the reply names the author of the repost
NoticeOfPoster(msg, rec, url, hash, source) ==
    [by |-> msg.id, source |-> source, url |-> url, hash |-> hash,
     user |-> msg.author, msg_link |-> rec.msg_link,
     days_between |-> num_days(now - rec.timestamp),
     today |-> num_days(now - rec.timestamp) < 1]

\* the reply built by MessageBuilder and sent with reply_mention
Notice(msg, rec, url, hash, source) ==
    [by |-> msg.id, source |-> source, url |-> url, hash |-> hash,
     user |-> rec.user, msg_link |-> rec.msg_link,
     days_between |-> num_days(now - rec.timestamp),
     today |-> num_days(now - rec.timestamp) < 1]

Event(op, h, msg, url, hash, verdict, rec) ==
    [op |-> op, h |-> h, msg |-> msg, url |-> url, hash |-> hash,
     verdict |-> verdict, rec |-> rec]

\* the position a handler moves to once the work before it is done: the
\* first phase that still has work, or the end of the handler
NextPc(hr) ==
    IF hr.urls # {} THEN "link"
    ELSE IF hr.embedded # <<>> \/ hr.atts # <<>> THEN "fetch"
    ELSE IF hr.hashes # <<>> THEN "image"
    ELSE "idle"

Advance(hr) ==
    LET pc == NextPc(hr)
    IN  IF pc = "idle" THEN IdleHandler ELSE [hr EXCEPT !.pc = pc]

\* the lock is released when the handler returns (guard dropped)
LockAfter(h, hr) == IF hr.pc = "idle" THEN Free ELSE h

----------------------------------------------------------------------------
\* the state once main has inserted the configuration and the empty caches
\* and started the client
Init ==
    /\ env \in Environment
    /\ read_config(env) # Panicked
    /\ read_config(env).cache_limit \in CacheLimits
    /\ config = read_config(env)
    /\ link_cache = {}
    /\ hash_cache = {}
    /\ allowed_links = {}
    /\ allowed_hashes = {}
    /\ lock = Free
    /\ handlers = [h \in Handlers |-> IdleHandler]
    /\ now = 0
    /\ nextId = 1
    /\ notices = <<>>
    /\ last = Event("init", 0, NoMsg, NoUrl, NoHash, "none", NoRecord)

\* the gateway delivers a message and a task is spawned for it
Receive(h, shapes) ==
    /\ handlers[h].pc = "idle"
    /\ \A g \in Handlers : g < h => handlers[g].pc # "idle"
    /\ nextId <= MaxMsgs
    /\ \E shape \in shapes :
          LET msg == [id |-> nextId, author |-> shape.author, bot |-> shape.bot,
                      allow |-> shape.allow, embeds |-> shape.embeds,
                      attachments |-> shape.attachments, timestamp |-> now]
              alive == {g \in Handlers : handlers[g].pc # "idle"}
          IN  /\ handlers' = [g \in Handlers |->
                     IF g = h
                     THEN [IdleHandler EXCEPT
                              !.pc = "start", !.msg = msg,
                              !.peers = {handlers[a].msg.id : a \in alive}]
                     ELSE IF g \in alive
                     THEN [handlers[g] EXCEPT !.peers = @ \cup {nextId}]
                     ELSE handlers[g]]
              /\ last' = Event("receive", h, msg, NoUrl, NoHash, "none", NoRecord)
    /\ nextId' = nextId + 1
    /\ UNCHANGED <<env, config, link_cache, hash_cache, allowed_links,
                   allowed_hashes, lock, now, notices>>

\* mutant of AllowRequested: the allow marker is not looked at
AllowRequestedNever(msg) == FALSE

\* line 108: `msg.content.contains("--allow")`
AllowRequested(msg) == msg.allow

\* if msg.author.bot { return; }
BotReturn(h) ==
    /\ handlers[h].pc = "start"
    /\ handlers[h].msg.bot
    /\ handlers' = [handlers EXCEPT ![h] = IdleHandler]
    /\ last' = Event("bot", h, handlers[h].msg, NoUrl, NoHash, "none", NoRecord)
    /\ UNCHANGED <<env, config, link_cache, hash_cache, allowed_links,
                   allowed_hashes, lock, now, nextId, notices>>

\* lines 112-136: take the write lock, apply the source-type filter, and
\* collect the attachments and the embed urls that are not allowed
AcquireDetect(h) ==
    LET msg == handlers[h].msg
        embedded == SelectSeq(EmbedUrls(msg), LAMBDA u : u \notin allowed_links)
        url_matches == {u \in SeqToSet(EmbedUrls(msg)) : u \notin allowed_links}
        ignored == is_ignored_type(msg, config)
        empty == msg.attachments = <<>> /\ embedded = <<>>
        hr == IF ignored \/ empty THEN IdleHandler
              ELSE Advance([handlers[h] EXCEPT !.urls = url_matches,
                                               !.embedded = embedded,
                                               !.atts = msg.attachments])
    IN  /\ handlers[h].pc = "start"
        /\ ~msg.bot
        /\ ~AllowRequested(msg)
        /\ lock = Free
        /\ handlers' = [handlers EXCEPT ![h] = hr]
        /\ lock' = LockAfter(h, hr)
        /\ last' = Event("detect", h, msg, NoUrl, NoHash,
                         IF ignored THEN "ignored"
                         ELSE IF empty THEN "empty" ELSE "proceed", NoRecord)
        /\ UNCHANGED <<env, config, link_cache, hash_cache, allowed_links,
                       allowed_hashes, now, nextId, notices>>

\* `link_cache.iter().find(|l| l.url == url)`: the records find can return
LinkFind(cache, url) == {l \in cache : l.url = url}

\* lines 137-164: one iteration of `for url in url_matches`
LinkStep(h) ==
    LET hr == handlers[h]
        msg == hr.msg
    IN  /\ hr.pc = "link"
        /\ lock = h
        /\ \E url \in hr.urls :
              LET found == LinkFind(link_cache, url)
                  nhr == Advance([hr EXCEPT !.urls = hr.urls \ {url}])
              IN  /\ IF found # {}
                     THEN \E link \in found :
                            /\ notices' = Append(notices,
                                   Notice(msg, link, url, NoHash, "link"))
                            /\ link_cache' = link_cache
                            /\ last' = Event("link", h, msg, url, NoHash,
                                             "duplicate", link)
                     ELSE /\ link_cache' = HashSetInsert(link_cache,
                                               LinkMetadata(url, msg))
                          /\ notices' = notices
                          /\ last' = Event("link", h, msg, url, NoHash,
                                           "novel", LinkMetadata(url, msg))
                  /\ handlers' = [handlers EXCEPT ![h] = nhr]
                  /\ lock' = LockAfter(h, nhr)
        /\ UNCHANGED <<env, config, hash_cache, allowed_links, allowed_hashes,
                       now, nextId>>

\* get_embedded_hash: the fingerprint of the image behind the url, or None
\* when the request, the body or the decoding fails
get_embedded_hash(url) == {NoHash, RemoteImage(url)}

\* get_attachment_hash: the fingerprint of the attachment, or None when the
\* download or the decoding fails
get_attachment_hash(attachment) == {NoHash, attachment}

\* mutant of PushHash: the allowed fingerprints are not consulted
PushHashUnfiltered(hashes, image_hash, source_type) ==
    IF image_hash # NoHash
    THEN Append(hashes, [hash |-> image_hash, source_type |-> source_type])
    ELSE hashes

\* mutant of PushHash: a failed fetch is pushed like a fingerprint
PushHashAlways(hashes, image_hash, source_type) ==
    IF image_hash \notin allowed_hashes
    THEN Append(hashes, [hash |-> image_hash, source_type |-> source_type])
    ELSE hashes

\* lines 168-172 and 175-179: push the fingerprint unless None or allowed
PushHash(hashes, image_hash, source_type) ==
    IF image_hash # NoHash /\ image_hash \notin allowed_hashes
    THEN Append(hashes, [hash |-> image_hash, source_type |-> source_type])
    ELSE hashes

\* lines 167-173: one iteration of `for url in embedded`
FetchEmbedded(h) ==
    LET hr == handlers[h]
    IN  /\ hr.pc = "fetch"
        /\ lock = h
        /\ hr.embedded # <<>>
        /\ \E image_hash \in get_embedded_hash(Head(hr.embedded)) :
              LET nhr == Advance([hr EXCEPT
                            !.embedded = Tail(hr.embedded),
                            !.hashes = PushHash(hr.hashes, image_hash, "embedded")])
              IN  /\ handlers' = [handlers EXCEPT ![h] = nhr]
                  /\ lock' = LockAfter(h, nhr)
                  /\ last' = Event("fetch_embedded", h, hr.msg, Head(hr.embedded),
                                   image_hash, "none", NoRecord)
        /\ UNCHANGED <<env, config, link_cache, hash_cache, allowed_links,
                       allowed_hashes, now, nextId, notices>>

\* lines 174-180: one iteration of `for attachment in attachments`
FetchAttachment(h) ==
    LET hr == handlers[h]
    IN  /\ hr.pc = "fetch"
        /\ lock = h
        /\ hr.embedded = <<>>
        /\ hr.atts # <<>>
        /\ \E image_hash \in get_attachment_hash(Head(hr.atts)) :
              LET nhr == Advance([hr EXCEPT
                            !.atts = Tail(hr.atts),
                            !.hashes = PushHash(hr.hashes, image_hash, "attachment")])
              IN  /\ handlers' = [handlers EXCEPT ![h] = nhr]
                  /\ lock' = LockAfter(h, nhr)
                  /\ last' = Event("fetch_attachment", h, hr.msg, NoUrl,
                                   image_hash, "none", NoRecord)
        /\ UNCHANGED <<env, config, link_cache, hash_cache, allowed_links,
                       allowed_hashes, now, nextId, notices>>

\* mutant of ImageFind: only an identical fingerprint matches
ImageFindExact(cache, hash) == {i \in cache : i.hash = hash}

\* `metadata_cache.iter().find(|i| hash.dist(&i.hash) < 2)`: the records
\* find can return
ImageFind(cache, hash) == {i \in cache : dist(hash, i.hash) < DistThreshold}

\* mutant of SuppressedSource: a matching embedded image is reported too
SuppressedNever(source_type) == FALSE

\* line 195: `if source_type == "embedded" { return; }`
SuppressedSource(source_type) == source_type = "embedded"

\* lines 183-214: one iteration of `for meta_hash in hashes`
ImageStep(h) ==
    LET hr == handlers[h]
        msg == hr.msg
        hash == Head(hr.hashes).hash
        source_type == Head(hr.hashes).source_type
        found == ImageFind(hash_cache, hash)
        rest == Advance([hr EXCEPT !.hashes = Tail(hr.hashes)])
    IN  /\ hr.pc = "image"
        /\ lock = h
        /\ IF found = {}
           THEN /\ hash_cache' = HashSetInsert(hash_cache, ImageMetadata(hash, msg))
                /\ notices' = notices
                /\ handlers' = [handlers EXCEPT ![h] = rest]
                /\ lock' = LockAfter(h, rest)
                /\ last' = Event("image", h, msg, NoUrl, hash, "novel",
                                 ImageMetadata(hash, msg))
           ELSE \E result \in found :
                  /\ hash_cache' = hash_cache
                  /\ IF SuppressedSource(source_type)
                     THEN /\ notices' = notices
                          /\ handlers' = [handlers EXCEPT ![h] = IdleHandler]
                          /\ lock' = Free
                          /\ last' = Event("image", h, msg, NoUrl, hash,
                                           "suppressed", result)
                     ELSE /\ notices' = Append(notices,
                                 Notice(msg, result, NoUrl, hash, source_type))
                          /\ handlers' = [handlers EXCEPT ![h] = rest]
                          /\ lock' = LockAfter(h, rest)
                          /\ last' = Event("image", h, msg, NoUrl, hash,
                                           "duplicate", result)
        /\ UNCHANGED <<env, config, link_cache, allowed_links, allowed_hashes,
                       now, nextId>>

\* lines 252-256: `for url in url_matches { allowed_links.insert(url) }`
RECURSIVE AllowAll(_, _)
AllowAll(allowed, urls) ==
    IF urls = {} THEN allowed
    ELSE LET url == CHOOSE u \in urls : TRUE
         IN  AllowAll(HashSetInsert(allowed, url), urls \ {url})

\* set_allowed, lines 244-257: take the write lock and allow every embed url
AcquireAllow(h) ==
    LET hr == handlers[h]
        msg == hr.msg
        url_matches == SeqToSet(EmbedUrls(msg))
        nhr == IF msg.attachments = <<>> THEN IdleHandler
               ELSE [hr EXCEPT !.pc = "allow_fetch", !.atts = msg.attachments]
    IN  /\ hr.pc = "start"
        /\ ~msg.bot
        /\ AllowRequested(msg)
        /\ lock = Free
        /\ allowed_links' = IF msg.embeds # <<>>
                            THEN AllowAll(allowed_links, url_matches)
                            ELSE allowed_links
        /\ handlers' = [handlers EXCEPT ![h] = nhr]
        /\ lock' = LockAfter(h, nhr)
        /\ last' = Event("allow", h, msg, NoUrl, NoHash,
                         IF url_matches \subseteq allowed_links
                         THEN "present" ELSE "inserted", NoRecord)
        /\ UNCHANGED <<env, config, link_cache, hash_cache, allowed_hashes,
                       now, nextId, notices>>

\* set_allowed, lines 259-263: one iteration of `for attachment in &msg.attachments`
AllowFetch(h) ==
    LET hr == handlers[h]
    IN  /\ hr.pc = "allow_fetch"
        /\ lock = h
        /\ \E img_hash \in get_attachment_hash(Head(hr.atts)) :
              LET nhr == IF Tail(hr.atts) = <<>> THEN IdleHandler
                         ELSE [hr EXCEPT !.atts = Tail(hr.atts)]
              IN  /\ allowed_hashes' = IF img_hash # NoHash
                                       THEN HashSetInsert(allowed_hashes, img_hash)
                                       ELSE allowed_hashes
                  /\ handlers' = [handlers EXCEPT ![h] = nhr]
                  /\ lock' = LockAfter(h, nhr)
                  /\ last' = Event("allow_fetch", h, hr.msg, NoUrl, img_hash,
                                   IF img_hash = NoHash THEN "none"
                                   ELSE IF img_hash \in allowed_hashes
                                   THEN "present" ELSE "inserted", NoRecord)
        /\ UNCHANGED <<env, config, link_cache, hash_cache, allowed_links,
                       now, nextId, notices>>

Tick ==
    /\ \E d \in TickHours :
          /\ now + d <= MaxClock
          /\ now' = now + d
    /\ last' = Event("tick", 0, NoMsg, NoUrl, NoHash, "none", NoRecord)
    /\ UNCHANGED <<env, config, link_cache, hash_cache, allowed_links,
                   allowed_hashes, lock, handlers, nextId, notices>>

\* the steps of the task handling a message
Handle(h) ==
    \/ BotReturn(h)
    \/ AcquireDetect(h)
    \/ LinkStep(h)
    \/ FetchEmbedded(h)
    \/ FetchAttachment(h)
    \/ ImageStep(h)
    \/ AcquireAllow(h)
    \/ AllowFetch(h)

Next ==
    \/ \E h \in Handlers : Receive(h, MsgShapes)
    \/ \E h \in Handlers : Handle(h)

Spec == Init /\ [][Next]_vars

\* the same program with the clock running, on fewer messages
TimedNext ==
    \/ \E h \in Handlers : Receive(h, TimedShapes)
    \/ \E h \in Handlers : Handle(h)
    \/ Tick

TimedSpec == Init /\ [][TimedNext]_vars

\* the Config slot of the TypeMap before main inserts one
NoConfig == [cache_limit |-> 0, ignored_types |-> {}]

\* the process as main begins, with any environment
StartInit ==
    /\ env \in Environment
    /\ config = NoConfig
    /\ link_cache = {}
    /\ hash_cache = {}
    /\ allowed_links = {}
    /\ allowed_hashes = {}
    /\ lock = Main
    /\ handlers = [h \in Handlers |-> IdleHandler]
    /\ now = 0
    /\ nextId = 1
    /\ notices = <<>>
    /\ last = Event("boot", 0, NoMsg, NoUrl, NoHash, "none", NoRecord)

\* main, lines 81-89: read the configuration and insert it and the empty
\* caches under the write lock; a panic of read_config ends the process
Startup ==
    /\ lock = Main
    /\ last.op = "boot"
    /\ IF read_config(env) = Panicked
       THEN /\ config' = config
            /\ lock' = lock
            /\ last' = Event("panic", 0, NoMsg, NoUrl, NoHash, "none", NoRecord)
       ELSE /\ config' = read_config(env)
            /\ lock' = Free
            /\ last' = Event("main", 0, NoMsg, NoUrl, NoHash, "none", NoRecord)
    /\ UNCHANGED <<env, link_cache, hash_cache, allowed_links, allowed_hashes,
                   handlers, now, nextId, notices>>

\* client.start() has been reached: messages are delivered and handled
Running == lock # Main

\* the program from the start of main, on the messages of TimedShapes
StartNext ==
    \/ Startup
    \/ Running /\ \E h \in Handlers : Receive(h, TimedShapes)
    \/ Running /\ \E h \in Handlers : Handle(h)

StartSpec == StartInit /\ [][StartNext]_vars

----------------------------------------------------------------------------
(* Properties *)

Latest(seq) == seq[Len(seq)]

\* the step just taken is a step `op` of some handler
Stepped(op) == last'.op = op

\* C1 (admission): a message that reaches detection hands every embed url
\* that is not allowed to the link path, unless links are ignored
C1_Admitted ==
    Stepped("detect") =>
        LET h == last'.h
            msg == handlers[h].msg
        IN  \A U \in SeqToSet(EmbedUrls(msg)) :
               (U \notin allowed_links /\ "links" \notin config.ignored_types)
                   => U \in handlers'[h].urls

\* C1 (first post): with no record for U, the link path emits no notice and
\* stores one record for U, carrying the message's submitter and reference
C1_FirstPost ==
    (Stepped("link") /\ LinkFind(link_cache, last'.url) = {}) =>
        LET msg == handlers[last'.h].msg
            U == last'.url
        IN  /\ notices' = notices
            /\ Cardinality(LinkFind(link_cache', U)) = 1
            /\ \A l \in LinkFind(link_cache', U) :
                  l.user = msg.author /\ l.msg_link = msg.id

\* C1 (second post): with a record for U, the link path emits exactly one
\* notice, referencing the record's submitter and origin, and stores nothing
C1_Repost ==
    (Stepped("link") /\ LinkFind(link_cache, last'.url) # {}) =>
        LET msg == handlers[last'.h].msg
            U == last'.url
        IN  /\ Len(notices') = Len(notices) + 1
            /\ SubSeq(notices', 1, Len(notices)) = notices
            /\ Latest(notices').by = msg.id
            /\ Latest(notices').url = U
            /\ \A l \in LinkFind(link_cache, U) :
                  /\ Latest(notices').user = l.user
                  /\ Latest(notices').msg_link = l.msg_link
            /\ link_cache' = link_cache

\* C1: exact link dedup. For every url U that is not allowed and whose
\* category (links) is not ignored, the first message posting U emits no
\* notice and stores one link record for U, and a second message posting U
\* emits exactly one notice that references the first message's submitter
\* and origin reference.
C1_ExactLinkDedup == [][C1_Admitted /\ C1_FirstPost /\ C1_Repost]_vars

\* the part of C1 that the link path itself decides (lines 137-164)
C1_LinkPath == [][C1_FirstPost /\ C1_Repost]_vars

\* the stored image records within Hamming distance 0 or 1 of a fingerprint
Near(cache, F) == {i \in cache : dist(F, i.hash) \in {0, 1}}

C2_Step ==
    Stepped("image") =>
        LET msg == handlers[last'.h].msg
            F == Head(handlers[last'.h].hashes).hash
            source == Head(handlers[last'.h].hashes).source_type
            near == Near(hash_cache, F)
            judged_duplicate == last'.verdict \in {"duplicate", "suppressed"}
        IN  /\ last'.hash = F
            /\ judged_duplicate <=> near # {}
            /\ judged_duplicate =>
                  /\ last'.rec \in near
                  /\ hash_cache' = hash_cache
                  /\ last'.verdict = "duplicate" =>
                        /\ notices' = Append(notices, Latest(notices'))
                        /\ Latest(notices').user = last'.rec.user
                        /\ Latest(notices').msg_link = last'.rec.msg_link
            /\ near = {} =>
                  /\ last'.verdict = "novel"
                  /\ notices' = notices
                  /\ hash_cache' = hash_cache \cup
                        {[url |-> NoUrl, hash |-> F, timestamp |-> msg.timestamp,
                          user |-> msg.author, msg_link |-> msg.id]}

\* C2: near-match image dedup. The image path judges a candidate
\* fingerprint a duplicate if and only if some stored image record is at
\* Hamming distance 0 or 1 from it, the record it reports is one of those,
\* and when every stored record is at distance >= 2 it inserts a new record.
C2_NearMatch == [][C2_Step]_vars

\* a candidate was judged a duplicate of a record at distance exactly 1, and
\* another was inserted next to a record at distance >= 2
C2_Witness ==
    /\ last.op = "image"
    /\ last.verdict = "duplicate"
    /\ dist(last.hash, last.rec.hash) = 1
    /\ \E i, j \in hash_cache : dist(i.hash, j.hash) >= 2

\* steps of C3: the registry only grows, an allow operation enters the urls
\* and the fingerprints it obtained, and what the registry holds gets no
\* new record and no notice
C3_Step ==
    /\ allowed_links \subseteq allowed_links'
    /\ allowed_hashes \subseteq allowed_hashes'
    /\ Stepped("allow") =>
          SeqToSet(EmbedUrls(handlers[last'.h].msg)) \subseteq allowed_links'
    /\ (Stepped("allow_fetch") /\ last'.hash # NoHash) =>
          last'.hash \in allowed_hashes'
    /\ \A U \in allowed_links :
          /\ LinkFind(link_cache', U) \subseteq link_cache
          /\ Len(notices') > Len(notices) => Latest(notices').url # U
    /\ \A F \in allowed_hashes :
          /\ {i \in hash_cache' : i.hash = F} \subseteq hash_cache
          /\ Len(notices') > Len(notices) => Latest(notices').hash # F

\* C3: allow exemption. Once an allow operation on url U (on an image with
\* fingerprint F) has completed, no later message emits a duplicate notice
\* for U (for F) and none inserts a link record with url U (an image record
\* with fingerprint F).
C3_AllowExemption == [][C3_Step]_vars

\* an allowed url and an allowed attachment posted again: the message's
\* url was dropped before the link path, and its attachment after the fetch
C3_Witness ==
    /\ last.op = "fetch_attachment"
    /\ last.hash \in allowed_hashes
    /\ {i \in hash_cache : i.hash = last.hash} = {}
    /\ \E U \in SeqToSet(last.msg.embeds) :
          U \in allowed_links /\ LinkFind(link_cache, U) = {}
    /\ notices = <<>>

\* C4: capacity bound. Neither sub-cache ever holds more records than the
\* configured capacity.
C4_CapacityBound ==
    /\ Cardinality(link_cache) <= config.cache_limit
    /\ Cardinality(hash_cache) <= config.cache_limit

\* the stored records for exactly the content a link or image step evaluates
Exact(links, images, ev) ==
    IF ev.op = "link" THEN LinkFind(links, ev.url)
    ELSE {i \in images : i.hash = ev.hash}

\* no two records for one url, none for one fingerprint
C5_Unique ==
    /\ \A l1, l2 \in link_cache : l1.url = l2.url => l1 = l2
    /\ \A i1, i2 \in hash_cache : i1.hash = i2.hash => i1 = i2

\* a handler evaluating content: it is novel only if no record for it is
\* stored, one record for it is stored afterwards, and a record for it left
\* by a concurrent handler of another submitter is observed and reported
\* (an embedded image counts as reported when the link path of the same
\* message already sent a notice)
C5_RaceStep ==
    (Stepped("link") \/ Stepped("image")) =>
        LET hr == handlers[last'.h]
            exact == Exact(link_cache, hash_cache, last')
            rivals == {r \in exact : r.msg_link \in hr.peers
                                     /\ r.user # hr.msg.author}
        IN  /\ last'.verdict = "novel" => exact = {}
            /\ (last'.verdict = "novel" \/ rivals # {}) =>
                  Cardinality(Exact(link_cache', hash_cache', last')) = 1
            /\ rivals # {} =>
                  /\ link_cache' = link_cache
                  /\ hash_cache' = hash_cache
                  /\ last'.rec \in rivals
                  /\ \/ /\ last'.verdict = "duplicate"
                        /\ Len(notices') = Len(notices) + 1
                        /\ Latest(notices').by = hr.msg.id
                        /\ Latest(notices').user = last'.rec.user
                        /\ Latest(notices').msg_link = last'.rec.msg_link
                     \/ /\ last'.verdict = "suppressed"
                        /\ \E k \in DOMAIN notices :
                              notices[k].by = hr.msg.id /\ notices[k].source = "link"

\* C5: concurrency race. When two handlers for identical novel content (same
\* url, or identical fingerprint) from different submitters run concurrently,
\* exactly one record for the content is stored, at most one handler treats
\* it as novel, and the other observes the winner's record and reports a
\* duplicate of it; the link cache holds at most one record per url.
C5_ConcurrencyRace == []C5_Unique /\ [][C5_RaceStep]_vars

\* the part of C5 about the records: never two for the same content, and a
\* handler that finds the winner's record inserts nothing
C5_NoDoubleInsert ==
    []C5_Unique /\
    [][(Stepped("link") \/ Stepped("image")) =>
          LET exact == Exact(link_cache, hash_cache, last')
          IN  /\ last'.verdict = "novel" => exact = {}
              /\ exact # {} => /\ link_cache' = link_cache
                               /\ hash_cache' = hash_cache]_vars

\* the notices a message sent for a url through the link path
LinkNotices(id, U) ==
    {k \in DOMAIN notices : /\ notices[k].by = id
                            /\ notices[k].source = "link"
                            /\ notices[k].url = U}

\* C6: cross-source suppression. When the link path has sent a duplicate
\* notice for an embedded link, the image path sends no notice for the image
\* of that embed: no notice ever comes from an embedded image, and a message
\* sends at most one notice per embedded link.
C6_CrossSource ==
    /\ \A k \in DOMAIN notices : notices[k].source # "embedded"
    /\ \A k \in DOMAIN notices :
          notices[k].source = "link" =>
              Cardinality(LinkNotices(notices[k].by, notices[k].url)) = 1

\* the image of a reposted embed matched and was suppressed after the link
\* path had sent the one notice of that message
C6_Witness ==
    /\ last.op = "image"
    /\ last.verdict = "suppressed"
    /\ \E U \in SeqToSet(last.msg.embeds) :
          Cardinality(LinkNotices(last.msg.id, U)) = 1
    /\ Cardinality({k \in DOMAIN notices : notices[k].by = last.msg.id}) = 1

C7_Step ==
    /\ Stepped("allow") =>
          LET urls == SeqToSet(EmbedUrls(handlers[last'.h].msg))
          IN  /\ allowed_links' = allowed_links \cup urls
              /\ urls \subseteq allowed_links => allowed_links' = allowed_links
              /\ \A U \in urls : Cardinality({e \in allowed_links' : e = U}) = 1
    /\ (Stepped("allow_fetch") /\ last'.hash # NoHash) =>
          /\ allowed_hashes' = allowed_hashes \cup {last'.hash}
          /\ last'.hash \in allowed_hashes => allowed_hashes' = allowed_hashes
          /\ Cardinality({e \in allowed_hashes' : e = last'.hash}) = 1

\* C7: idempotent allow. Allowing a url (a fingerprint) that is already in
\* the registry leaves the registry as it was, with exactly one entry for it.
C7_IdempotentAllow == [][C7_Step]_vars

\* a second allow of a fingerprint and of a url already in the registry
C7_Witness ==
    /\ last.op = "allow_fetch"
    /\ last.verdict = "present"
    /\ last.hash \in allowed_hashes
    /\ SeqToSet(last.msg.embeds) # {}
    /\ SeqToSet(last.msg.embeds) \subseteq allowed_links

\* the category a candidate belongs to, as named in REPOST_IGNORED_TYPES
Category(source) == IF source = "attachment" THEN "attachment" ELSE "links"

C8_Step ==
    /\ (Stepped("link") /\ "links" \in config.ignored_types) =>
          link_cache' = link_cache /\ notices' = notices
    /\ (Stepped("image")
           /\ Category(Head(handlers[last'.h].hashes).source_type)
                 \in config.ignored_types) =>
          hash_cache' = hash_cache /\ notices' = notices

\* nothing of an ignored category is in a cache, in a notice or among the
\* candidates of a handler
C8_Holds ==
    /\ "links" \in config.ignored_types =>
          /\ link_cache = {}
          /\ \A k \in DOMAIN notices : notices[k].source # "link"
          /\ \A h \in Handlers :
                /\ handlers[h].urls = {}
                /\ \A k \in DOMAIN handlers[h].hashes :
                      handlers[h].hashes[k].source_type # "embedded"
    /\ "attachment" \in config.ignored_types =>
          /\ \A k \in DOMAIN notices : notices[k].source # "attachment"
          /\ \A h \in Handlers : \A k \in DOMAIN handlers[h].hashes :
                handlers[h].hashes[k].source_type # "attachment"

\* C8: source-type filter. When a category is ignored, no candidate of that
\* category is inserted into either cache and none gets a notice, allowed or
\* not.
C8_SourceTypeFilter == []C8_Holds /\ [][C8_Step]_vars

\* a message with an attachment was dropped because attachments are ignored
C8_Witness ==
    /\ "attachment" \in config.ignored_types
    /\ last.op = "detect"
    /\ last.verdict = "ignored"
    /\ last.msg.attachments # <<>>
    /\ hash_cache # {}

C9_Step ==
    /\ (Stepped("fetch_embedded") /\ last'.hash = NoHash) =>
          LET hr == handlers[last'.h]
          IN  /\ handlers'[last'.h] = Advance([hr EXCEPT !.embedded = Tail(hr.embedded)])
              /\ handlers'[last'.h].hashes = hr.hashes
    /\ (Stepped("fetch_attachment") /\ last'.hash = NoHash) =>
          LET hr == handlers[last'.h]
          IN  /\ handlers'[last'.h] = Advance([hr EXCEPT !.atts = Tail(hr.atts)])
              /\ handlers'[last'.h].hashes = hr.hashes
    /\ (Stepped("fetch_embedded") \/ Stepped("fetch_attachment")) =>
          /\ hash_cache' = hash_cache
          /\ link_cache' = link_cache
          /\ notices' = notices
          /\ last'.hash \in Fingerprints \cup {NoHash}
    /\ Stepped("image") => last'.hash \in Fingerprints

\* C9: fail-open. A candidate whose fetch or fingerprint fails gives no
\* notice and no insertion (it never becomes a candidate of the image
\* path), and the handler goes on exactly as if the candidate had not been
\* in the message: the remaining candidates are fetched and evaluated.
C9_FailOpen == [][C9_Step]_vars

\* the fetch of the first of two candidates failed and the handler went on
\* to the second
C9_Witness ==
    \E h \in Handlers :
       /\ last.op = "fetch_embedded"
       /\ last.h = h
       /\ last.hash = NoHash
       /\ handlers[h].pc = "fetch"
       /\ handlers[h].hashes = <<>>
       /\ handlers[h].embedded # <<>>

C10_Step ==
    ((Stepped("link") \/ Stepped("image")) /\ last'.verdict = "duplicate") =>
        LET seenAt == last'.rec.timestamp
            elapsed == now - seenAt
            daysAgo == Latest(notices').days_between
        IN  /\ elapsed >= 0
            /\ 24 * daysAgo <= elapsed
            /\ elapsed < 24 * (daysAgo + 1)
            /\ (now \div 24 = seenAt \div 24) =>
                    (daysAgo = 0 /\ Latest(notices').today)
            /\ elapsed = 18 => daysAgo = 0
            /\ elapsed = 30 => (daysAgo = 1 /\ ~Latest(notices').today)

\* C10: notice age. The days reported in a notice are the whole 24-hour
\* periods between the matched record's timestamp and the evaluation, 0
\* ("earlier today") when both fall on the same calendar day; 18 hours
\* give 0 and 30 hours give 1.
C10_NoticeAge == [][C10_Step]_vars

\* a repost reported 30 hours after the original, as 1 day ago
C10_Witness ==
    /\ last.op \in {"link", "image"}
    /\ last.verdict = "duplicate"
    /\ now - last.rec.timestamp = 30
    /\ Latest(notices).days_between = 1

\* the candidates still waiting in `hashes` behind the one being evaluated
Remaining(hr) == Tail(hr.hashes)

C11_Step ==
    (Stepped("image") /\ last'.verdict = "suppressed") =>
        LET h == last'.h
            hr == handlers[h]
        IN  /\ notices' = notices
            /\ hash_cache' = hash_cache
            /\ (Remaining(hr) # <<>>) =>
                  (/\ handlers'[h].pc = "image"
                   /\ handlers'[h].hashes = Remaining(hr)
                   /\ lock' = h)

\* C11: suppression drops only the notice. When the image path suppresses
\* the notice for a matching embedded image, the candidates of the message
\* still waiting behind it stay in the handler's loop, to be evaluated and,
\* if novel, inserted.
C11_SuppressionKeepsRest == [][C11_Step]_vars

\* the step evaluates the candidate at the head of handler h's `hashes`
Evaluates(h) == Stepped("image") /\ last'.h = h

\* an attachment fingerprint that was obtained and is not allowed becomes a
\* candidate of the image path
C12_Pushed ==
    (Stepped("fetch_attachment") /\ last'.hash # NoHash
                                 /\ last'.hash \notin allowed_hashes) =>
        LET hashes == handlers'[last'.h].hashes
        IN  /\ hashes # <<>>
            /\ Latest(hashes) = [hash |-> last'.hash, source_type |-> "attachment"]

\* an attachment candidate leaves `hashes` only by being evaluated
C12_Kept ==
    \A h \in Handlers :
       LET hr == handlers[h]
           kept == IF Evaluates(h) THEN Tail(hr.hashes) ELSE hr.hashes
       IN  \A i \in DOMAIN kept :
              kept[i].source_type = "attachment" =>
                  (/\ i \in DOMAIN handlers'[h].hashes
                   /\ handlers'[h].hashes[i] = kept[i])

\* the evaluation of an attachment candidate is a notice on a match and an
\* insertion on a miss
C12_Evaluated ==
    \A h \in Handlers :
       (Evaluates(h) /\ Head(handlers[h].hashes).source_type = "attachment") =>
           LET hash == Head(handlers[h].hashes).hash
           IN  IF Near(hash_cache, hash) # {}
               THEN /\ Len(notices') = Len(notices) + 1
                    /\ Latest(notices').hash = hash
                    /\ Latest(notices').by = handlers[h].msg.id
                    /\ hash_cache' = hash_cache
               ELSE /\ notices' = notices
                    /\ \E rec \in hash_cache' \ hash_cache : rec.hash = hash

\* C12: attachments are independently evaluated. Every attachment whose
\* fingerprint is obtained and not allowed is matched against the image
\* sub-cache, with a notice on a match and an insertion on a miss, whatever
\* the verdicts reached for the embeds of the same message.
C12_AttachmentsEvaluated == [][C12_Pushed /\ C12_Kept /\ C12_Evaluated]_vars

\* handler h is at a fetch: get_embedded_hash or get_attachment_hash is the
\* next thing it does
Fetching(h) == handlers[h].pc \in {"fetch", "allow_fetch"}

\* C13: no lock across I/O. In no reachable state does a handler hold the
\* exclusive lock on the shared data while one of its fetches is in
\* progress.
C13_NoLockAcrossIO == \A h \in Handlers : Fetching(h) => lock # h

\* a handler waits for the lock while the owner of the lock is fetching
C13_Blocked ==
    \E h, g \in Handlers :
       /\ Fetching(h)
       /\ lock = h
       /\ handlers[g].pc = "start"
       /\ ~handlers[g].msg.bot

\* the step inserts into a sub-cache that is already at capacity
AtCapacityInsert(cache, op) ==
    /\ Stepped(op)
    /\ last'.verdict = "novel"
    /\ Cardinality(cache) >= config.cache_limit

\* a stored record stays as it is, unless an insert at capacity evicts it
C14_Kept ==
    /\ (link_cache \ link_cache' # {}) => AtCapacityInsert(link_cache, "link")
    /\ (hash_cache \ hash_cache' # {}) => AtCapacityInsert(hash_cache, "image")

\* a record is created only by the link or image step of a message, for a
\* key that has no record, with the submitter, reference and time of that
\* message
C14_Created ==
    /\ \A rec \in link_cache' \ link_cache :
          /\ Stepped("link")
          /\ LinkFind(link_cache, rec.url) = {}
          /\ rec = LinkMetadata(rec.url, handlers[last'.h].msg)
    /\ \A rec \in hash_cache' \ hash_cache :
          /\ Stepped("image")
          /\ {i \in hash_cache : i.hash = rec.hash} = {}
          /\ rec = ImageMetadata(rec.hash, handlers[last'.h].msg)

\* a notice names the submitter and the message of the stored record it
\* matched, and the record stays
C14_Attributed ==
    ((Stepped("link") \/ Stepped("image")) /\ last'.verdict = "duplicate") =>
        LET rec == last'.rec
        IN  /\ rec \in link_cache \cup hash_cache
            /\ rec \in link_cache' \cup hash_cache'
            /\ Latest(notices').user = rec.user
            /\ Latest(notices').msg_link = rec.msg_link

\* C14: record stability. A link or image record, once inserted, keeps its
\* key, time, submitter and origin reference; it is removed only by an
\* eviction on an insert at capacity, never by a hit, an allow operation or
\* an ignored message, so a repost is attributed to the original submitter.
C14_RecordStability == [][C14_Kept /\ C14_Created /\ C14_Attributed]_vars

\* user B reposted what user A had posted: the notice names A and A's record
\* is still stored
C14_Witness ==
    /\ last.op \in {"link", "image"}
    /\ last.verdict = "duplicate"
    /\ last.rec \in link_cache \cup hash_cache
    /\ last.rec.user = "A"
    /\ last.msg.author = "B"
    /\ Latest(notices).user = "A"

\* REPOST_CACHE_LIMIT is set to an integer greater than 0
ValidCapacity(e) ==
    /\ e.REPOST_CACHE_LIMIT.set
    /\ parse_u64(e.REPOST_CACHE_LIMIT.value) > 0

\* C15: invalid capacity is fatal. The program reaches the running state,
\* where messages are processed, only when the configured capacity is an
\* integer greater than 0; with 0, a negative, non-numeric or missing value
\* the startup fails.
C15_InvalidCapacityFatal ==
    /\ Running => ValidCapacity(env)
    /\ (\E h \in Handlers : handlers[h].pc # "idle") => ValidCapacity(env)

\* a missing, empty, non-numeric or negative capacity never reaches the
\* running state
C15_UnparsedIsFatal ==
    (~env.REPOST_CACHE_LIMIT.set
        \/ env.REPOST_CACHE_LIMIT.value \in {<<>>, <<"a">>, <<"-", "1">>})
            => ~Running

C16_Step ==
    Stepped("detect") =>
        LET h == last'.h
            msg == handlers[h].msg
            urls == {U \in SeqToSet(EmbedUrls(msg)) : U \notin allowed_links}
            both == urls # {} /\ msg.attachments # <<>>
            ignored == config.ignored_types \cap {"attachment", "links"}
        IN  /\ (both /\ ignored = {"attachment"}) =>
                  (/\ handlers'[h].urls = urls
                   /\ handlers'[h].atts = <<>>)
            /\ (both /\ ignored = {"links"}) =>
                  (/\ handlers'[h].atts = msg.attachments
                   /\ handlers'[h].urls = {}
                   /\ handlers'[h].embedded = <<>>)

\* C16: the filter is per category. When exactly one category is ignored and
\* a message carries an embedded link and an attachment, the candidates of
\* the category that is not ignored go on to be matched and cached, and
\* only those of the ignored category are left out.
C16_FilterPerCategory == [][C16_Step]_vars

\* C17: no self-repost. Every notice references a record created by another
\* message than the one it answers: a message whose candidates match no
\* record stored before it was processed gets no notice, also when two of
\* its own images are within distance < 2 of each other.
C17_NoSelfRepost ==
    \A i \in DOMAIN notices : notices[i].msg_link # notices[i].by

\* a notice is sent for a message although, when its handler took the lock,
\* no stored record matched any of its candidates
C17_SelfReported ==
    /\ last.op = "image"
    /\ last.verdict = "duplicate"
    /\ last.rec.msg_link = last.msg.id
    /\ Len(notices) = 1
    /\ nextId = 2

\* C18: separation of the image sub-cache. Any two distinct image records
\* have fingerprints at Hamming distance 2 or more.
C18_Separation ==
    \A i1, i2 \in hash_cache :
       i1 # i2 => dist(i1.hash, i2.hash) >= DistThreshold

\* two image records are stored, and the candidate just evaluated, within
\* distance 1 of one of them, was not inserted
C18_Witness ==
    /\ Cardinality(hash_cache) >= 2
    /\ last.op = "image"
    /\ last.verdict = "duplicate"
    /\ dist(last.hash, last.rec.hash) = 1
    /\ {i \in hash_cache : i.hash = last.hash} = {}

\* the message whose handler took the step
Handled == last'.msg

C19_Step ==
    /\ (Handled.allow /\ ~Handled.bot) =>
          (/\ link_cache' = link_cache
           /\ hash_cache' = hash_cache
           /\ notices' = notices
           /\ config' = config)
    /\ Handled.bot =>
          (/\ link_cache' = link_cache
           /\ hash_cache' = hash_cache
           /\ allowed_links' = allowed_links
           /\ allowed_hashes' = allowed_hashes
           /\ notices' = notices
           /\ config' = config
           /\ lock' = lock)

\* C19: allow and bot messages leave the content cache alone. No step of
\* the handling of a message with the allow marker changes the link or
\* image sub-cache or sends a notice, also when its links or images match
\* stored records; no step of the handling of a bot's message changes any
\* shared state or sends a notice.
C19_AllowAndBotFrame == [][C19_Step]_vars

\* a url that has a stored record was just allowed, and no notice was sent
C19_Witness ==
    /\ last.op = "allow"
    /\ last.msg.allow
    /\ \E U \in SeqToSet(last.msg.embeds) :
          /\ LinkFind(link_cache, U) # {}
          /\ U \in allowed_links
    /\ notices = <<>>

====
